---- MODULE Spec2Model ----
(***************************************************************************)
(* The token contract of contract/src/lib.rs (TokenContractInstance): a    *)
(* ledger kept in the flat 32-byte key / 32-byte value store of the        *)
(* execution environment, with the Transfer and Approval events it logs.   *)
(*                                                                         *)
(* Every method of the TokenContract trait is a function of the store, the *)
(* log, the caller and the arguments that yields the returned value, the   *)
(* store and the log after the call; the action of the method applies it.  *)
(* A method runs to completion before the next call starts (the            *)
(* environment serialises the invocations), so a call is one atomic step.  *)
(***************************************************************************)
EXTENDS Integers, Sequences, FiniteSets, TLC

\* ------------------------------------------------------------------ bounds

\* The largest value of the unsigned integer type of the model.  The code
\* uses bigint::U256 (2^256 - 1); the model keeps the type's behaviour
\* (checked + and -, which panic when the result leaves 0..MaxU256) at a
\* width TLC can enumerate.
MaxU256 == 2

\* The calls of a behaviour stop once the log holds this many events (the
\* log of the environment itself is unbounded).  A call made in a state
\* with a full log is still covered by the formulas that quantify over the
\* calls of a state.
MaxLog == 2

\* ------------------------------------------------------- bytes and words

ADDRESS_BYTES == 20
H256_BYTES    == 32

Zeros(n) == [ i \in 1 .. n |-> 0 ]

\* Address::new(): the zero address, the default sender of the test
\* environment (ExternalBuilder::new()).
ZERO_ADDRESS == Zeros(ADDRESS_BYTES)

\* 0xdb6fd484cfa46eeeb73c71edee823e4812f9e2e1
SPENDER_ADDRESS ==
    << 219, 111, 212, 132, 207, 164, 110, 238, 183, 60,
       113, 237, 238, 130, 62, 72, 18, 249, 226, 225 >>

\* 0xea674fdde714fd979de3edf0f56aa9716b898ec8
SAM_ADDRESS ==
    << 234, 103, 79, 221, 231, 20, 253, 151, 157, 227,
       237, 240, 245, 106, 169, 113, 107, 137, 142, 200 >>

\* The callers and the address arguments of the model.
Addresses == { ZERO_ADDRESS, SPENDER_ADDRESS, SAM_ADDRESS }

\* The values of the U256 arguments of the model.
U256 == 0 .. MaxU256

\* H256::from(Address): the 20 bytes of the address, left-padded with zero
\* bytes to 32.
H256_from_Address(address) == Zeros(H256_BYTES - ADDRESS_BYTES) \o address

\* U256 -> H256 (value.into()): the big-endian bytes of the value.
RECURSIVE ShiftRightBytes(_, _)
ShiftRightBytes(value, k) ==
    IF k = 0 \/ value = 0 THEN value ELSE ShiftRightBytes(value \div 256, k - 1)

BigEndian(value, n) == [ i \in 1 .. n |-> ShiftRightBytes(value, n - i) % 256 ]

U256_into_H256(value) == BigEndian(value, H256_BYTES)

\* H256 -> U256 (storage::read(..).into()): the value of big-endian bytes.
RECURSIVE FromBigEndian(_, _)
FromBigEndian(bytes, n) ==
    IF n = 0 \/ SubSeq(bytes, 1, n) = Zeros(n) THEN 0
    ELSE 256 * FromBigEndian(bytes, n - 1) + bytes[n]

H256_into_U256(word) == FromBigEndian(word, Len(word))

\* bigint's U256 `+` and `-` are checked: they panic ("arithmetic operation
\* overflow") when the result does not fit the type.
U256_add_overflows(a, b) == a + b > MaxU256
U256_sub_overflows(a, b) == a < b

\* ---------------------------------------------------------- storage keys

TOTAL_SUPPLY_KEY == <<2>> \o Zeros(H256_BYTES - 1)
OWNER_KEY        == <<3>> \o Zeros(H256_BYTES - 1)

\* The bytes of the tag "allowance_key".
ALLOWANCE_TAG == << 97, 108, 108, 111, 119, 97, 110, 99, 101, 95, 107, 101, 121 >>

\* Keccak-256 as an ideal hash: the digest of a message is represented by
\* the message itself behind a marker no byte equals, so that two digests
\* are equal exactly when their messages are and no digest equals a key
\* written out byte by byte.
KECCAK_MARK == 0 - 1
Keccak256(message) == <<KECCAK_MARK>> \o message

allowance_key(owner, spender) == Keccak256(ALLOWANCE_TAG \o owner \o spender)

\* balance_key with a fault: the namespace byte is that of TOTAL_SUPPLY_KEY.
balance_key_namespace_2(address) == [H256_from_Address(address) EXCEPT ![1] = 2]

\* balance_key with a fault: the namespace byte is written over the last
\* byte of the key.
balance_key_last_byte(address) == [H256_from_Address(address) EXCEPT ![H256_BYTES] = 1]

balance_key(address) == [H256_from_Address(address) EXCEPT ![1] = 1]

\* The keys the contract reads or writes for the addresses of the model.
Keys ==
    { TOTAL_SUPPLY_KEY, OWNER_KEY }
        \cup { balance_key(a) : a \in Addresses }
        \cup { allowance_key(o, s) : o \in Addresses, s \in Addresses }

\* ------------------------------------------------------------------ state

VARIABLES
    storage,    \* the key/value store: Keys -> 32-byte word
    log,        \* the events logged so far, in order
    deployed,   \* TRUE once the environment has run the constructor
    last,       \* history: the last call that changed the store or the log
    approved,   \* history: the value of owner's last approve(spender, .), or -1
    spent       \* history: what spender's transferFrom calls took from owner since

vars == << storage, log, deployed, last, approved, spent >>

NEVER_APPROVED == 0 - 1

\* storage::read and storage::write of the environment; a key never written
\* reads as the zero word.
storage_read(store, key) == store[key]
storage_write(store, key, word) == [store EXCEPT ![key] = word]

read_balance_of(store, owner) == H256_into_U256(storage_read(store, balance_key(owner)))

read_allowance(store, key) == H256_into_U256(storage_read(store, key))

write_allowance(store, key, value) == storage_write(store, key, U256_into_H256(value))

\* The events of the trait, as the generated Endpoint logs them: the name of
\* the event and the two indexed addresses as topics, the value as data.
Transfer(from, to, value) ==
    [ topics |-> << "Transfer(address,address,uint256)",
                    H256_from_Address(from), H256_from_Address(to) >>,
      data   |-> U256_into_H256(value) ]

Approval(owner, spender, value) ==
    [ topics |-> << "Approval(address,address,uint256)",
                    H256_from_Address(owner), H256_from_Address(spender) >>,
      data   |-> U256_into_H256(value) ]

Init ==
    /\ storage = [ k \in Keys |-> Zeros(H256_BYTES) ]
    /\ log = <<>>
    /\ deployed = FALSE
    /\ last = [ op |-> "none" ]
    /\ approved = [ p \in Addresses \X Addresses |-> NEVER_APPROVED ]
    /\ spent = [ p \in Addresses \X Addresses |-> 0 ]

\* What a call hands back: the returned value ("true", "false", a number, or
\* "panic" when the invocation aborts), the store and the log after it.
Outcome(result, store, events) ==
    [ result |-> result, storage |-> store, log |-> events ]

\* ---------------------------------------------------------------- methods

\* constructor_call with a fault: the initial supply is logged as a
\* Transfer from the zero address to the caller.
constructor_call_logs(store, events, sender, total_supply) ==
    Outcome("unit",
            storage_write(
              storage_write(
                storage_write(store, TOTAL_SUPPLY_KEY, U256_into_H256(total_supply)),
                balance_key(sender), U256_into_H256(total_supply)),
              OWNER_KEY, H256_from_Address(sender)),
            Append(events, Transfer(ZERO_ADDRESS, sender, total_supply)))

\* constructor_call with a fault: a guard ignores the call when an owner is
\* stored already.
constructor_call_guarded(store, events, sender, total_supply) ==
    IF storage_read(store, OWNER_KEY) # Zeros(H256_BYTES)
    THEN Outcome("unit", store, events)
    ELSE Outcome("unit",
                 storage_write(
                   storage_write(
                     storage_write(store, TOTAL_SUPPLY_KEY, U256_into_H256(total_supply)),
                     balance_key(sender), U256_into_H256(total_supply)),
                   OWNER_KEY, H256_from_Address(sender)),
                 events)

constructor_call(store, events, sender, total_supply) ==
    Outcome("unit",
            storage_write(
              storage_write(
                storage_write(store, TOTAL_SUPPLY_KEY, U256_into_H256(total_supply)),
                balance_key(sender), U256_into_H256(total_supply)),
              OWNER_KEY, H256_from_Address(sender)),
            events)

balanceOf_call(store, events, owner) ==
    Outcome(read_balance_of(store, owner), store, events)

totalSupply_call(store, events) ==
    Outcome(H256_into_U256(storage_read(store, TOTAL_SUPPLY_KEY)), store, events)

\* The guard of transfer: `amount == 0 || senderBalance < amount`.
\* transfer_rejects with a fault: the balance of the caller is not checked.
transfer_rejects_unchecked_balance(amount, senderBalance) == amount = 0

transfer_rejects(amount, senderBalance) ==
    amount = 0 \/ senderBalance < amount

\* transfer_writes with a fault: the write of the sender's balance is the
\* later one.
transfer_writes_sender_last(store, sender, to, new_sender_balance, new_recipient_balance) ==
    storage_write(
      storage_write(store, balance_key(to), U256_into_H256(new_recipient_balance)),
      balance_key(sender), U256_into_H256(new_sender_balance))

\* The two balance writes of transfer, in the order of the code: the write
\* of the recipient's balance is the later one.
transfer_writes(store, sender, to, new_sender_balance, new_recipient_balance) ==
    storage_write(
      storage_write(store, balance_key(sender), U256_into_H256(new_sender_balance)),
      balance_key(to), U256_into_H256(new_recipient_balance))

\* transfer_call with a fault: the Transfer event is logged before the guard,
\* so a rejected call leaves an entry in the log.
transfer_call_logs_rejected(store, events, sender, to, amount) ==
    LET senderBalance == read_balance_of(store, sender)
        recipientBalance == read_balance_of(store, to)
        logged == Append(events, Transfer(sender, to, amount))
    IN  IF transfer_rejects(amount, senderBalance)
        THEN Outcome("false", store, logged)
        ELSE IF \/ U256_sub_overflows(senderBalance, amount)
                \/ U256_add_overflows(recipientBalance, amount)
        THEN Outcome("panic", store, events)
        ELSE Outcome("true",
                     transfer_writes(store, sender, to,
                                     senderBalance - amount,
                                     recipientBalance + amount),
                     logged)

transfer_call(store, events, sender, to, amount) ==
    LET senderBalance == read_balance_of(store, sender)
        recipientBalance == read_balance_of(store, to)
    IN  IF transfer_rejects(amount, senderBalance)
        THEN Outcome("false", store, events)
        ELSE IF \/ U256_sub_overflows(senderBalance, amount)
                \/ U256_add_overflows(recipientBalance, amount)
        THEN Outcome("panic", store, events)
        ELSE Outcome("true",
                     transfer_writes(store, sender, to,
                                     senderBalance - amount,
                                     recipientBalance + amount),
                     Append(events, Transfer(sender, to, amount)))

\* approve_call with a fault: the value is added to the allowance in the store
\* instead of replacing it.
approve_call_accumulates(store, events, sender, spender, value) ==
    Outcome("true",
            write_allowance(store, allowance_key(sender, spender),
                            read_allowance(store, allowance_key(sender, spender)) + value),
            Append(events, Approval(sender, spender, value)))

\* approve_call with a fault: the allowance is written under the key of the
\* spender's allowance for the caller.
approve_call_swapped(store, events, sender, spender, value) ==
    Outcome("true",
            write_allowance(store, allowance_key(spender, sender), value),
            Append(events, Approval(sender, spender, value)))

approve_call(store, events, sender, spender, value) ==
    Outcome("true",
            write_allowance(store, allowance_key(sender, spender), value),
            Append(events, Approval(sender, spender, value)))

allowance_call(store, events, owner, spender) ==
    Outcome(read_allowance(store, allowance_key(owner, spender)), store, events)

\* transferFrom_rejects with a fault: the balance of `from` is not checked.
transferFrom_rejects_unchecked_balance(allowed, amount, fromBalance) ==
    allowed < amount \/ amount = 0

\* The guard of transferFrom:
\* `allowed < amount || amount == 0 || fromBalance < amount`.
transferFrom_rejects(allowed, amount, fromBalance) ==
    allowed < amount \/ amount = 0 \/ fromBalance < amount

\* transferFrom_a_key with a fault: owner and spender change places.
transferFrom_a_key_swapped(from, sender) == allowance_key(sender, from)

\* `let a_key = allowance_key(&from, &ext::sender())`
transferFrom_a_key(from, sender) == allowance_key(from, sender)

\* transferFrom_new_allowed with a fault: the allowance is not reduced.
transferFrom_new_allowed_unspent(allowed, amount) == allowed

\* `let new_allowed = allowed - amount`
transferFrom_new_allowed(allowed, amount) == allowed - amount

\* transferFrom_call with a fault: the allowance is written before the balance
\* of `from` is checked, so a call rejected for the balance has spent it.
transferFrom_call_writes_early(store, events, sender, from, to, amount) ==
    LET fromBalance == read_balance_of(store, from)
        recipientBalance == read_balance_of(store, to)
        a_key == transferFrom_a_key(from, sender)
        allowed == read_allowance(store, a_key)
        spentStore == storage_write(store, a_key, U256_into_H256(allowed - amount))
    IN  IF allowed < amount \/ amount = 0
        THEN Outcome("false", store, events)
        ELSE IF fromBalance < amount
        THEN Outcome("false", spentStore, events)
        ELSE IF U256_add_overflows(recipientBalance, amount)
        THEN Outcome("panic", store, events)
        ELSE Outcome("true",
                     storage_write(
                       storage_write(spentStore,
                         balance_key(from), U256_into_H256(fromBalance - amount)),
                       balance_key(to), U256_into_H256(recipientBalance + amount)),
                     Append(events, Transfer(from, to, amount)))

transferFrom_call(store, events, sender, from, to, amount) ==
    LET fromBalance == read_balance_of(store, from)
        recipientBalance == read_balance_of(store, to)
        a_key == transferFrom_a_key(from, sender)
        allowed == read_allowance(store, a_key)
    IN  IF transferFrom_rejects(allowed, amount, fromBalance)
        THEN Outcome("false", store, events)
        ELSE IF \/ U256_sub_overflows(allowed, amount)
                \/ U256_sub_overflows(fromBalance, amount)
                \/ U256_add_overflows(recipientBalance, amount)
        THEN Outcome("panic", store, events)
        ELSE Outcome("true",
                     storage_write(
                       storage_write(
                         storage_write(store, a_key,
                           U256_into_H256(transferFrom_new_allowed(allowed, amount))),
                         balance_key(from), U256_into_H256(fromBalance - amount)),
                       balance_key(to), U256_into_H256(recipientBalance + amount)),
                     Append(events, Transfer(from, to, amount)))

\* ---------------------------------------------------------------- actions

\* The environment runs the constructor when it deploys the contract, before
\* it routes any other call to it.
constructor(sender, total_supply) ==
    LET out == constructor_call(storage, log, sender, total_supply)
    IN  /\ ~deployed
        /\ storage' = out.storage
        /\ log' = out.log
        /\ deployed' = TRUE
        /\ last' = [ op |-> "constructor", sender |-> sender,
                     total_supply |-> total_supply ]
        /\ UNCHANGED << approved, spent >>

\* The constructor called on a contract that is already deployed: the method
\* has no guard of its own, so where the environment routes the call to it
\* again it runs as it did the first time.
constructor_reinvoked(sender, total_supply) ==
    LET out == constructor_call(storage, log, sender, total_supply)
    IN  /\ deployed
        /\ storage' = out.storage
        /\ log' = out.log
        /\ last' = [ op |-> "constructor", sender |-> sender,
                     total_supply |-> total_supply ]
        /\ UNCHANGED << deployed, approved, spent >>

balanceOf(owner) ==
    LET out == balanceOf_call(storage, log, owner)
    IN  /\ deployed
        /\ storage' = out.storage
        /\ log' = out.log
        /\ UNCHANGED << deployed, last, approved, spent >>

totalSupply ==
    LET out == totalSupply_call(storage, log)
    IN  /\ deployed
        /\ storage' = out.storage
        /\ log' = out.log
        /\ UNCHANGED << deployed, last, approved, spent >>

transfer(sender, to, amount) ==
    LET out == transfer_call(storage, log, sender, to, amount)
    IN  /\ deployed
        /\ storage' = out.storage
        /\ log' = out.log
        /\ last' = IF out.result = "true"
                   THEN [ op |-> "transfer", sender |-> sender, to |-> to,
                          amount |-> amount ]
                   ELSE last
        /\ UNCHANGED << deployed, approved, spent >>

approve(sender, spender, value) ==
    LET out == approve_call(storage, log, sender, spender, value)
    IN  /\ deployed
        /\ storage' = out.storage
        /\ log' = out.log
        /\ last' = [ op |-> "approve", sender |-> sender, spender |-> spender,
                     value |-> value ]
        /\ approved' = [ approved EXCEPT ![<<sender, spender>>] = value ]
        /\ spent' = [ spent EXCEPT ![<<sender, spender>>] = 0 ]
        /\ UNCHANGED deployed

allowance(owner, spender) ==
    LET out == allowance_call(storage, log, owner, spender)
    IN  /\ deployed
        /\ storage' = out.storage
        /\ log' = out.log
        /\ UNCHANGED << deployed, last, approved, spent >>

transferFrom(sender, from, to, amount) ==
    LET out == transferFrom_call(storage, log, sender, from, to, amount)
    IN  /\ deployed
        /\ storage' = out.storage
        /\ log' = out.log
        /\ last' = IF out.result = "true"
                   THEN [ op |-> "transferFrom", sender |-> sender, from |-> from,
                          to |-> to, amount |-> amount ]
                   ELSE last
        /\ spent' = IF out.result = "true"
                    THEN [ spent EXCEPT ![<<from, sender>>] = @ + amount ]
                    ELSE spent
        /\ UNCHANGED << deployed, approved >>

\* ---------------------------------------------------------- specification

\* The calls the environment routes to the contract, until the log holds
\* `cap` events.
Calls(cap) ==
    \/ \E sender \in Addresses, total_supply \in U256 :
          constructor(sender, total_supply)
    \/ \E owner \in Addresses : Len(log) < cap /\ balanceOf(owner)
    \/ Len(log) < cap /\ totalSupply
    \/ \E sender \in Addresses, to \in Addresses, amount \in U256 :
          Len(log) < cap /\ transfer(sender, to, amount)
    \/ \E sender \in Addresses, spender \in Addresses, value \in U256 :
          Len(log) < cap /\ approve(sender, spender, value)
    \/ \E owner \in Addresses, spender \in Addresses :
          Len(log) < cap /\ allowance(owner, spender)
    \/ \E sender \in Addresses, from \in Addresses, to \in Addresses, amount \in U256 :
          Len(log) < cap /\ transferFrom(sender, from, to, amount)

Next == Calls(MaxLog)

Spec == Init /\ [][Next]_vars

\* The same calls, with room in the log for one more event.
NextDeep == Calls(MaxLog + 1)

SpecDeep == Init /\ [][NextDeep]_vars

\* The calls of Next and, on the deployed contract, the constructor again.
\* To keep the state space finite and small the constructor runs again only
\* after a call that changed the store or the log, and only while the log
\* has room for the event of a later call.
NextAgain ==
    \/ Calls(MaxLog)
    \/ \E sender \in Addresses, total_supply \in U256 :
          /\ last.op # "constructor"
          /\ Len(log) < MaxLog
          /\ constructor_reinvoked(sender, total_supply)

SpecAgain == Init /\ [][NextAgain]_vars

\* ------------------------------------------------------------ observables

Balance(store, a) == read_balance_of(store, a)
Allowance(store, o, s) == read_allowance(store, allowance_key(o, s))
TotalSupply(store) == H256_into_U256(storage_read(store, TOTAL_SUPPLY_KEY))

\* The address in the word stored under OWNER_KEY: its last 20 bytes.
Owner(store) ==
    SubSeq(storage_read(store, OWNER_KEY), H256_BYTES - ADDRESS_BYTES + 1, H256_BYTES)

RECURSIVE SumOver(_, _)
SumOver(store, S) ==
    IF S = {} THEN 0
    ELSE LET a == CHOOSE x \in S : TRUE
         IN  Balance(store, a) + SumOver(store, S \ {a})

SumOfBalances(store) == SumOver(store, Addresses)

\* ----------------------------------------------------------------- claims

\* C1.  Value conservation: once the constructor has run, the balances of
\* all addresses add up to TotalSupply in every reachable state.
C1_Conservation ==
    deployed => SumOfBalances(storage) = TotalSupply(storage)

\* C2.  A transfer to oneself that passes the guards leaves the sender's
\* balance and the sum of all balances as they were before the call.
C2_SelfTransferConserves ==
    [][ ( /\ log' # log
          /\ last'.op = "transfer"
          /\ last'.to = last'.sender )
        => /\ Balance(storage', last'.sender) = Balance(storage, last'.sender)
           /\ SumOfBalances(storage') = SumOfBalances(storage) ]_vars

\* C3.  For every caller, every other address `to` and every amount > 0 the
\* caller's balance covers, transfer returns true, takes exactly the amount
\* from the caller's balance, adds exactly the amount to the balance of
\* `to`, and appends exactly one Transfer(sender, to, amount) event.
C3_TransferSucceeds ==
    \A sender \in Addresses, to \in Addresses, amount \in U256 :
        ( /\ deployed
          /\ to # sender
          /\ amount > 0
          /\ Balance(storage, sender) >= amount )
        => LET out == transfer_call(storage, log, sender, to, amount)
           IN  /\ out.result = "true"
               /\ Balance(out.storage, sender) = Balance(storage, sender) - amount
               /\ Balance(out.storage, to) = Balance(storage, to) + amount
               /\ out.log = Append(log, Transfer(sender, to, amount))

\* C4.  transfer returns false exactly when amount = 0 or the caller's
\* balance is below the amount, returns true in every other case, and has
\* no other way to fail.
C4_TransferResult ==
    \A sender \in Addresses, to \in Addresses, amount \in U256 :
        LET out == transfer_call(storage, log, sender, to, amount)
            rejected == amount = 0 \/ Balance(storage, sender) < amount
        IN  /\ out.result \in { "true", "false" }
            /\ (out.result = "false") <=> rejected
            /\ (out.result = "true") <=> ~rejected

\* C5.  Whenever transfer or transferFrom returns false, the store (every
\* balance, every allowance, TotalSupply, Owner) and the log after the call
\* are the ones before it.
C5_RejectionChangesNothing ==
    /\ \A sender \in Addresses, to \in Addresses, amount \in U256 :
          LET out == transfer_call(storage, log, sender, to, amount)
          IN  out.result = "false" => out.storage = storage /\ out.log = log
    /\ \A sender \in Addresses, from \in Addresses, to \in Addresses, amount \in U256 :
          LET out == transferFrom_call(storage, log, sender, from, to, amount)
          IN  out.result = "false" => out.storage = storage /\ out.log = log

\* A state where the same spender's transferFrom is rejected once for the
\* owner's balance and once for the allowance, after events were logged.
C5_Witness ==
    /\ log # <<>>
    /\ \E sender \in Addresses, from \in Addresses, to \in Addresses, amount \in U256 :
          /\ amount > 0
          /\ Allowance(storage, from, sender) >= amount
          /\ Balance(storage, from) < amount
          /\ transferFrom_call(storage, log, sender, from, to, amount).result = "false"
    /\ \E sender \in Addresses, to \in Addresses, amount \in U256 :
          /\ amount > 0
          /\ Balance(storage, sender) > 0
          /\ transfer_call(storage, log, sender, to, amount).result = "false"

\* C6.  For every caller `spender` and addresses from # to, if amount > 0,
\* the allowance of (from, spender) and the balance of `from` both cover
\* the amount, then transferFrom returns true, takes exactly the amount from
\* the allowance and from the balance of `from`, adds exactly the amount to
\* the balance of `to`, and appends exactly one Transfer(from, to, amount).
C6_TransferFromSucceeds ==
    \A spender \in Addresses, from \in Addresses, to \in Addresses, amount \in U256 :
        ( /\ deployed
          /\ from # to
          /\ amount > 0
          /\ Allowance(storage, from, spender) >= amount
          /\ Balance(storage, from) >= amount )
        => LET out == transferFrom_call(storage, log, spender, from, to, amount)
           IN  /\ out.result = "true"
               /\ Allowance(out.storage, from, spender)
                    = Allowance(storage, from, spender) - amount
               /\ Balance(out.storage, from) = Balance(storage, from) - amount
               /\ Balance(out.storage, to) = Balance(storage, to) + amount
               /\ out.log = Append(log, Transfer(from, to, amount))

\* C7.  transferFrom returns false exactly when the allowance is below the
\* amount, or the amount is 0, or the balance of `from` is below the amount;
\* an allowance that covers the amount does not let the spender move more
\* than `from` holds.
C7_TransferFromRejection ==
    \A spender \in Addresses, from \in Addresses, to \in Addresses, amount \in U256 :
        LET out == transferFrom_call(storage, log, spender, from, to, amount)
        IN  /\ (out.result = "false")
                 <=> \/ Allowance(storage, from, spender) < amount
                     \/ amount = 0
                     \/ Balance(storage, from) < amount
            /\ ( Allowance(storage, from, spender) >= amount
                 /\ Balance(storage, from) < amount )
                 => /\ out.result = "false"
                    /\ Balance(out.storage, from) = Balance(storage, from)

\* A state where a spender holds an allowance larger than the owner's
\* balance, the owner holding tokens.
C7_Witness ==
    \E spender \in Addresses, from \in Addresses :
        /\ from # spender
        /\ Balance(storage, from) > 0
        /\ Allowance(storage, from, spender) > Balance(storage, from)
        /\ transferFrom_call(storage, log, spender, from, spender,
                             Allowance(storage, from, spender)).result = "false"

C9_OnlyApproved ==
    \A S \in Addresses, from \in Addresses, to \in Addresses, amount \in U256 :
        transferFrom_call(storage, log, S, from, to, amount).result = "true"
        => approved[<<from, S>>] > 0

\* A step that raises the allowance of (O, S) is an approve(S, .) called by
\* O; a step that lowers the balance of O is a transfer called by O or a
\* transferFrom(O, ., .) called by a spender O approved.
C9_OnlyOwnerActs ==
    \A O \in Addresses :
        /\ \A S \in Addresses :
              Allowance(storage', O, S) > Allowance(storage, O, S)
              => /\ log' # log
                 /\ last'.op = "approve"
                 /\ last'.sender = O
                 /\ last'.spender = S
        /\ Balance(storage', O) < Balance(storage, O)
           => /\ log' # log
              /\ \/ last'.op = "transfer" /\ last'.sender = O
                 \/ /\ last'.op = "transferFrom"
                    /\ last'.from = O
                    /\ approved[<<O, last'.sender>>] > 0

\* C9.  A transferFrom(from, ., .) called by S succeeds only if `from` has
\* called approve(S, v) with v > 0 before; no call of a party other than O
\* raises the allowance of (O, S); the balance of O goes down only by a
\* transfer O called or by a successful transferFrom(O, ., .) of a spender
\* O approved.
C9_Authorization == []C9_OnlyApproved /\ [][C9_OnlyOwnerActs]_vars

\* A state reached by a transferFrom of a third party: the spender is
\* neither the owner nor the recipient.
C9_Witness ==
    /\ last.op = "transferFrom"
    /\ last.sender # last.from
    /\ last.sender # last.to
    /\ last.from # last.to
    /\ approved[<<last.from, last.sender>>] > 0

\* C10.  approve overwrites: after O's approve(S, v1) and approve(S, v2),
\* with no spending from the allowance of (O, S) after the later one,
\* allowance(O, S) returns v2; allowance(O, S) right after a single
\* approve(S, v) returns v.
C10_ApproveOverwrites ==
    /\ \A O \in Addresses, S \in Addresses :
          ( approved[<<O, S>>] # NEVER_APPROVED /\ spent[<<O, S>>] = 0 )
          => allowance_call(storage, log, O, S).result = approved[<<O, S>>]
    /\ \A O \in Addresses, S \in Addresses, v \in U256 :
          LET out == approve_call(storage, log, O, S, v)
          IN  allowance_call(out.storage, out.log, O, S).result = v

\* A state after two approvals of the same owner for the same spender, both
\* of a positive value.
C10_Witness ==
    \E O \in Addresses, S \in Addresses, v1 \in U256 \ {0}, v2 \in U256 \ {0} :
        /\ log = << Approval(O, S, v1), Approval(O, S, v2) >>
        /\ Allowance(storage, O, S) = v2
        /\ Allowance(storage, O, S) # v1 + v2

\* What the ledger holds right after constructor(s) called by c on a fresh
\* store.
FreshlyConstructed(store, events, c, s) ==
    /\ totalSupply_call(store, events).result = s
    /\ balanceOf_call(store, events, c).result = s
    /\ Owner(store) = c
    /\ storage_read(store, OWNER_KEY) = H256_from_Address(c)
    /\ \A a \in Addresses \ {c} : balanceOf_call(store, events, a).result = 0
    /\ \A o \in Addresses, sp \in Addresses :
          allowance_call(store, events, o, sp).result = 0
    /\ events = <<>>

\* C11.  For every supply s in 0 .. MaxU256 and every caller c, right after
\* constructor(s) called by c on a fresh store: totalSupply() = s,
\* balanceOf(c) = s, Owner = c, every other balance and every allowance is
\* 0, and the log is empty.
C11_Construction ==
    /\ ~deployed
       => \A c \in Addresses, s \in U256 :
             LET out == constructor_call(storage, log, c, s)
             IN  FreshlyConstructed(out.storage, out.log, c, s)
    /\ ( deployed /\ last.op = "constructor" )
       => FreshlyConstructed(storage, log, last.sender, last.total_supply)

\* The state right after a constructor call with the largest supply.
C11_Witness ==
    /\ deployed
    /\ last.op = "constructor"
    /\ last.total_supply = MaxU256
    /\ TotalSupply(storage) = MaxU256

\* No transfer, transferFrom or approve call made in this state, whatever
\* its caller, its arguments and its result, changes what totalSupply()
\* returns or the word stored under OWNER_KEY.
C12_CallsKeepSupply ==
    LET kept(out) ==
            /\ totalSupply_call(out.storage, out.log).result
                 = totalSupply_call(storage, log).result
            /\ storage_read(out.storage, OWNER_KEY) = storage_read(storage, OWNER_KEY)
    IN  deployed =>
        \A sender \in Addresses, a \in Addresses, b \in Addresses, v \in U256 :
            /\ kept(transfer_call(storage, log, sender, a, v))
            /\ kept(transferFrom_call(storage, log, sender, a, b, v))
            /\ kept(approve_call(storage, log, sender, a, v))

\* No step after the construction changes TotalSupply or Owner.
C12_StepsKeepSupply ==
    deployed => /\ TotalSupply(storage') = TotalSupply(storage)
                /\ Owner(storage') = Owner(storage)

\* C12.  TotalSupply is immutable after construction: no transfer,
\* transferFrom or approve call, successful or rejected, by any caller with
\* any arguments, changes the value totalSupply() returns or the stored
\* Owner.
C12_SupplyImmutable == []C12_CallsKeepSupply /\ [][C12_StepsKeepSupply]_vars

\* A state reached by a successful transferFrom of a spender who is not the
\* owner of the contract, the supply being positive.
C12_Witness ==
    /\ last.op = "transferFrom"
    /\ TotalSupply(storage) > 0
    /\ Owner(storage) # last.sender
    /\ Len(log) = MaxLog

\* C13.  No recipient overflow: after the one construction, for every
\* transfer and every transferFrom call that passes its guard, the
\* recipient's balance plus the amount fits a U256, so that the addition
\* does not abort the call.
C13_NoRecipientOverflow ==
    deployed =>
    /\ \A sender \in Addresses, to \in Addresses, amount \in U256 :
          ~transfer_rejects(amount, read_balance_of(storage, sender))
          => /\ ~U256_add_overflows(read_balance_of(storage, to), amount)
             /\ transfer_call(storage, log, sender, to, amount).result # "panic"
    /\ \A sender \in Addresses, from \in Addresses, to \in Addresses, amount \in U256 :
          ~transferFrom_rejects(read_allowance(storage, transferFrom_a_key(from, sender)),
                                amount, read_balance_of(storage, from))
          => /\ ~U256_add_overflows(read_balance_of(storage, to), amount)
             /\ transferFrom_call(storage, log, sender, from, to, amount).result # "panic"

\* C14.  No underflow: in every reachable state every balance and every
\* allowance is at least 0, and a transfer or transferFrom call that is not
\* rejected by its guard, so that it goes on to its subtractions, finds
\* every minuend at least as large as the amount: the caller's balance in
\* transfer, the allowance and the balance of `from` in transferFrom.
C14_NoUnderflow ==
    /\ \A a \in Addresses : Balance(storage, a) >= 0
    /\ \A o \in Addresses, sp \in Addresses : Allowance(storage, o, sp) >= 0
    /\ \A sender \in Addresses, to \in Addresses, amount \in U256 :
          transfer_call(storage, log, sender, to, amount).result # "false"
          => /\ Balance(storage, sender) >= amount
             /\ ~U256_sub_overflows(read_balance_of(storage, sender), amount)
    /\ \A sender \in Addresses, from \in Addresses, to \in Addresses, amount \in U256 :
          transferFrom_call(storage, log, sender, from, to, amount).result # "false"
          => /\ Allowance(storage, from, sender) >= amount
             /\ Balance(storage, from) >= amount
             /\ ~U256_sub_overflows(read_allowance(storage, transferFrom_a_key(from, sender)),
                                    amount)
             /\ ~U256_sub_overflows(read_balance_of(storage, from), amount)

\* A state reached by a transferFrom that took the whole balance of `from`
\* and the whole allowance of the spender: both subtractions gave 0.
C14_Witness ==
    /\ last.op = "transferFrom"
    /\ last.amount = MaxU256
    /\ last.from # last.to
    /\ Balance(storage, last.from) = 0
    /\ Allowance(storage, last.from, last.sender) = 0

\* C15.  In any state, approve(spender, value) by caller c returns true for
\* any value, larger than the balance of c or not, appends exactly one
\* Approval(c, spender, value) event and sets Allowance(c, spender) to the
\* value; every balance, TotalSupply, Owner and every other allowance, the
\* one of Allowance(spender, c) included, is what it was.
C15_ApproveEffect ==
    \A c \in Addresses, spender \in Addresses, value \in U256 :
        LET out == approve_call(storage, log, c, spender, value)
        IN  /\ out.result = "true"
            /\ out.log = Append(log, Approval(c, spender, value))
            /\ Allowance(out.storage, c, spender) = value
            /\ \A a \in Addresses : Balance(out.storage, a) = Balance(storage, a)
            /\ TotalSupply(out.storage) = TotalSupply(storage)
            /\ Owner(out.storage) = Owner(storage)
            /\ \A o \in Addresses, sp \in Addresses :
                  << o, sp >> # << c, spender >>
                  => Allowance(out.storage, o, sp) = Allowance(storage, o, sp)
            /\ \A k \in Keys \ { allowance_key(c, spender) } :
                  storage_read(out.storage, k) = storage_read(storage, k)

\* A state reached by an approval for more than the approver holds, while
\* the spender has approved the approver for a different positive value.
C15_Witness ==
    /\ last.op = "approve"
    /\ last.sender # last.spender
    /\ last.value > Balance(storage, last.sender)
    /\ Allowance(storage, last.sender, last.spender) = last.value
    /\ Allowance(storage, last.spender, last.sender) > 0
    /\ Allowance(storage, last.spender, last.sender) # last.value
    /\ log[Len(log)] = Approval(last.sender, last.spender, last.value)

\* What each call made in this state does to the log: a transfer or a
\* transferFrom that returns true appends its one Transfer event, an approve
\* appends its one Approval event, and a rejected or aborted call, a read
\* accessor and the constructor leave the log as it is.
C16_CallsLog ==
    /\ \A sender \in Addresses, to \in Addresses, amount \in U256 :
          LET out == transfer_call(storage, log, sender, to, amount)
          IN  out.log = IF out.result = "true"
                        THEN Append(log, Transfer(sender, to, amount))
                        ELSE log
    /\ \A sender \in Addresses, from \in Addresses, to \in Addresses, amount \in U256 :
          LET out == transferFrom_call(storage, log, sender, from, to, amount)
          IN  out.log = IF out.result = "true"
                        THEN Append(log, Transfer(from, to, amount))
                        ELSE log
    /\ \A owner \in Addresses, spender \in Addresses, value \in U256 :
          approve_call(storage, log, owner, spender, value).log
            = Append(log, Approval(owner, spender, value))
    /\ \A a \in Addresses, b \in Addresses, s \in U256 :
          /\ balanceOf_call(storage, log, a).log = log
          /\ allowance_call(storage, log, a, b).log = log
          /\ constructor_call(storage, log, a, s).log = log
    /\ totalSupply_call(storage, log).log = log

\* What each step does to the log: nothing, and then the step was a
\* construction or changed nothing the history records; or it appends the
\* one event of the call that the history records. The entries the log had
\* stay as they were.
C16_StepsLog ==
    \/ /\ log' = log
       /\ last' = last \/ last'.op = "constructor"
    \/ /\ last'.op = "transfer"
       /\ log' = Append(log, Transfer(last'.sender, last'.to, last'.amount))
    \/ /\ last'.op = "transferFrom"
       /\ log' = Append(log, Transfer(last'.from, last'.to, last'.amount))
    \/ /\ last'.op = "approve"
       /\ log' = Append(log, Approval(last'.sender, last'.spender, last'.value))

\* C16.  The event log matches the history of the calls: in call order, one
\* Transfer(from, to, amount) for each transfer and transferFrom that
\* returned true and one Approval(owner, spender, value) for each approve;
\* rejected calls, read accessors and the constructor append nothing, and
\* an entry of the log is never changed or removed.
C16_LogMatchesHistory == []C16_CallsLog /\ [][C16_StepsLog]_vars

\* A state whose log holds the Approval of an approve and, after it, the
\* Transfer of the transferFrom that the approved spender made.
C16_Witness ==
    /\ Len(log) = 2
    /\ last.op = "transferFrom"
    /\ last.from # last.to
    /\ log[2] = Transfer(last.from, last.to, last.amount)
    /\ \E value \in U256 : log[1] = Approval(last.from, last.sender, value)

\* C17.  Balance keys are isolated: balance_key maps a 20-byte address a to
\* the 32-byte key 01 || 00 x 11 || a, which differs for different
\* addresses and is neither the TotalSupply key nor the Owner key; hence
\* writing Balance(a) in a reachable store changes no Balance(b) for
\* b # a, nor TotalSupply, nor Owner.
C17_BalanceKeysIsolated ==
    LET \* the addresses of the model and addresses that differ from the
        \* zero address in their first or in their last byte only
        Probes == Addresses \cup
                  { [ZERO_ADDRESS EXCEPT ![i] = b] :
                        i \in { 1, ADDRESS_BYTES }, b \in { 1, 2, 3, 255 } }
    IN  /\ \A a \in Probes :
              /\ balance_key(a) = <<1>> \o Zeros(H256_BYTES - ADDRESS_BYTES - 1) \o a
              /\ Len(balance_key(a)) = H256_BYTES
              /\ balance_key(a) # TOTAL_SUPPLY_KEY
              /\ balance_key(a) # OWNER_KEY
        /\ \A a \in Probes, b \in Probes :
              balance_key(a) = balance_key(b) => a = b
        /\ \A a \in Addresses, v \in U256 :
              LET written == storage_write(storage, balance_key(a), U256_into_H256(v))
              IN  /\ Balance(written, a) = v
                  /\ \A b \in Addresses \ {a} : Balance(written, b) = Balance(storage, b)
                  /\ TotalSupply(written) = TotalSupply(storage)
                  /\ Owner(written) = Owner(storage)

\* A state where two addresses hold tokens, one of them the zero address,
\* whose balance key differs from the TotalSupply and Owner keys in the
\* first byte only, and the owner is not the zero address.
C17_Witness ==
    /\ last.op = "transfer"
    /\ Balance(storage, ZERO_ADDRESS) > 0
    /\ Balance(storage, SAM_ADDRESS) > 0
    /\ Owner(storage) = SAM_ADDRESS
    /\ TotalSupply(storage) = MaxU256

\* C18.  The constructor does not guard against being called again:
\* constructor(s) by c on a ledger that is already initialised is accepted
\* in every state, overwrites TotalSupply with s, Balance(c) with s and
\* Owner with c, and leaves every other balance and every allowance as it
\* was, so that prior holders keep their balances.
C18_Reconstruction ==
    /\ deployed
       => \A c \in Addresses, s \in U256 :
             LET out == constructor_call(storage, log, c, s)
             IN  /\ out.result = "unit"
                 /\ TotalSupply(out.storage) = s
                 /\ Balance(out.storage, c) = s
                 /\ Owner(out.storage) = c
                 /\ \A a \in Addresses \ {c} :
                       Balance(out.storage, a) = Balance(storage, a)
                 /\ \A o \in Addresses, sp \in Addresses :
                       Allowance(out.storage, o, sp) = Allowance(storage, o, sp)
                 /\ out.log = log
    /\ last.op = "constructor"
       => /\ TotalSupply(storage) = last.total_supply
          /\ Balance(storage, last.sender) = last.total_supply
          /\ Owner(storage) = last.sender

\* A state reached by a second construction, by another caller than the
\* holder of the tokens of the first: the holder has kept a balance, an
\* allowance has kept its value and the log its entries.
C18_Witness ==
    /\ last.op = "constructor"
    /\ log # <<>>
    /\ last.total_supply > 0
    /\ \E a \in Addresses \ { last.sender } : Balance(storage, a) > 0
    /\ \E o \in Addresses, sp \in Addresses : Allowance(storage, o, sp) > 0
    /\ SumOfBalances(storage) > TotalSupply(storage)

\* C19.  A transferFrom(from, to, amount) with from = to that returns true
\* leaves Balance(from) as it was and lowers Allowance(from, caller) by
\* exactly the amount.
C19_SelfTransferFrom ==
    \A caller \in Addresses, from \in Addresses, amount \in U256 :
        LET out == transferFrom_call(storage, log, caller, from, from, amount)
        IN  out.result = "true"
            => /\ Balance(out.storage, from) = Balance(storage, from)
               /\ Allowance(out.storage, from, caller)
                    = Allowance(storage, from, caller) - amount

\* C20.  Tokens are never destroyed: in every state reached after the
\* construction by constructor, transfer, transferFrom and approve calls,
\* and in the state that each call writing a balance (constructor, transfer,
\* transferFrom) leads to from there, the balances of all addresses add up
\* to at least TotalSupply.
C20_NeverDestroyed ==
    LET covered(store) == SumOfBalances(store) >= TotalSupply(store)
    IN  deployed =>
        /\ covered(storage)
        /\ \A sender \in Addresses, v \in U256 :
              covered(constructor_call(storage, log, sender, v).storage)
        /\ \A sender \in Addresses, to \in Addresses, v \in U256 :
              covered(transfer_call(storage, log, sender, to, v).storage)
        /\ \A sender \in Addresses, from \in Addresses, to \in Addresses, v \in U256 :
              covered(transferFrom_call(storage, log, sender, from, to, v).storage)

\* A state reached by a second construction whose caller held more than the
\* new supply, after a transfer: the construction has lowered the caller's
\* balance, and the balances add up to exactly TotalSupply.
C20_Witness ==
    /\ last.op = "constructor"
    /\ Len(log) = 1
    /\ log[1].topics[1] = "Transfer(address,address,uint256)"
    /\ last.total_supply > 0
    /\ last.total_supply < MaxU256
    /\ SumOfBalances(storage) = TotalSupply(storage)

====
